---- MODULE Spec2Model ----
(***************************************************************************)
(* Model of paper_decoder_enhanced.py: chunk_text, call_openai_with_tools, *)
(* identify_technical_terms (structured parsing, cleaning, deduplication,  *)
(* line fallback) and process_paper_enhanced.                              *)
(*                                                                         *)
(* A Python str is a sequence of one-character strings.                    *)
(***************************************************************************)
EXTENDS Integers, Sequences, FiniteSets, TLC

VARIABLES
    pc,                 \* position in the code
    error,              \* the exception that ended the run ("none" while running)
    text, max_length,   \* chunk_text: parameters
    words, wi,          \* chunk_text: text.split() and the position of 'for word in words'
    chunk, chunks,      \* chunk_text: the pending word list and the result
    first_chunk,        \* process_paper_enhanced: chunk = chunks[0]
    response,           \* identify_technical_terms: text returned by the service
    terms, ti,          \* json.loads(response_str) and the position of 'for term in terms'
    cleaned_terms, di,  \* cleaned terms and the position of 'for term in cleaned_terms'
    deduplicated_terms,
    technical_terms,    \* value returned by identify_technical_terms
    path,               \* which return of identify_technical_terms was taken
    log,                \* requests sent to client.responses.create, in order
    last_call,          \* outcome of the latest call_openai_with_tools
    explanations, ei,   \* process_paper_enhanced: dict and position in technical_terms[:5]
    repositories, comprehensive_explanation,
    report              \* value returned by process_paper_enhanced

chunkVars == <<text, max_length, words, wi, chunk, chunks>>
termVars  == <<response, terms, ti, cleaned_terms, di, deduplicated_terms,
               technical_terms, path>>
runVars   == <<first_chunk, log, last_call, explanations, ei, repositories,
               comprehensive_explanation, report>>
vars == <<pc, error, chunkVars, termVars, runVars>>

----------------------------------------------------------------------------
(* Bounds of the model *)

MaxTextLen == 5          \* longest text given to chunk_text on its own
MaxMaxLength == 4        \* largest max_length given to chunk_text on its own
MaxListLen == 3          \* longest list drawn from a pool of entries, terms or lines
MaxPages == 2            \* most pages of a document

(* Program constants *)

DefaultMaxLength == 3000
MaxTerms == 8
MaxFallbackTerms == 8
MinTermLen == 2
MinLineLen == 2
MaxExplained == 5
PreviewLen == 200
RepoPromptLen == 1000

----------------------------------------------------------------------------
(* Python str and list operations *)

Whitespace == {" ", "\t", "\n", "\r"}

MinOf(S) == CHOOSE x \in S : \A y \in S : x <= y
MaxOf(S) == CHOOSE x \in S : \A y \in S : x >= y

Take(s, n) == SubSeq(s, 1, IF Len(s) < n THEN Len(s) ELSE n)

\* s.strip(chars): drop the leading and trailing characters that are in cs
StripChars(s, cs) ==
    LET keep == {i \in 1..Len(s) : s[i] \notin cs}
    IN  IF keep = {} THEN <<>> ELSE SubSeq(s, MinOf(keep), MaxOf(keep))

\* s.strip()
Strip(s) == StripChars(s, Whitespace)

\* s.split(): the maximal runs of non-whitespace characters, in order
RECURSIVE SplitWords(_, _, _)
SplitWords(s, i, cur) ==
    LET flush == IF cur = <<>> THEN <<>> ELSE <<cur>>
    IN  IF i > Len(s) THEN flush
        ELSE IF s[i] \in Whitespace THEN flush \o SplitWords(s, i + 1, <<>>)
        ELSE SplitWords(s, i + 1, Append(cur, s[i]))

Split(s) == SplitWords(s, 1, <<>>)

\* s.split(sep) for a one-character sep: empty pieces are kept
RECURSIVE SplitOnFrom(_, _, _, _)
SplitOnFrom(s, sep, i, cur) ==
    IF i > Len(s) THEN <<cur>>
    ELSE IF s[i] = sep THEN <<cur>> \o SplitOnFrom(s, sep, i + 1, <<>>)
    ELSE SplitOnFrom(s, sep, i + 1, Append(cur, s[i]))

SplitOn(s, sep) == SplitOnFrom(s, sep, 1, <<>>)

\* sep.join(parts)
RECURSIVE Join(_, _)
Join(parts, sep) ==
    IF parts = <<>> THEN <<>>
    ELSE IF Len(parts) = 1 THEN parts[1]
    ELSE parts[1] \o sep \o Join(Tail(parts), sep)

\* ' '.join(chunk)
JoinWords(ws) == Join(ws, <<" ">>)

----------------------------------------------------------------------------
(* chunk_text *)

\* words = text.split(); chunks = []; chunk = []
ChunkSplit ==
    /\ pc = "chunk_split"
    /\ words' = Split(text)
    /\ wi' = 1
    /\ chunk' = <<>>
    /\ chunks' = <<>>
    /\ pc' = "chunk_loop"
    /\ UNCHANGED <<error, text, max_length, termVars, runVars>>

\* one iteration of 'for word in words'
ChunkWord ==
    /\ pc = "chunk_loop"
    /\ wi <= Len(words)
    /\ LET appended == Append(chunk, words[wi])
       IN  IF Len(JoinWords(appended)) > max_length
           THEN /\ chunks' = Append(chunks, JoinWords(appended))
                /\ chunk' = <<>>
           ELSE /\ chunk' = appended
                /\ chunks' = chunks
    /\ wi' = wi + 1
    /\ UNCHANGED <<pc, error, text, max_length, words, termVars, runVars>>

\* ChunkFlush without the final 'if chunk:' flush
ChunkFlushDropsTail ==
    /\ pc = "chunk_loop"
    /\ wi > Len(words)
    /\ pc' = "chunk_done"
    /\ UNCHANGED <<error, chunkVars, termVars, runVars>>

\* after the loop: 'if chunk: chunks.append(' '.join(chunk))'; return chunks
ChunkFlush ==
    /\ pc = "chunk_loop"
    /\ wi > Len(words)
    /\ chunks' = IF chunk # <<>> THEN Append(chunks, JoinWords(chunk)) ELSE chunks
    /\ chunk' = chunk
    /\ pc' = "chunk_done"
    /\ UNCHANGED <<error, text, max_length, words, wi, termVars, runVars>>

----------------------------------------------------------------------------
(* More str operations used by identify_technical_terms *)

StartsWith(s, p) == Len(p) <= Len(s) /\ SubSeq(s, 1, Len(p)) = p
EndsWith(s, p) == Len(p) <= Len(s) /\ SubSeq(s, Len(s) - Len(p) + 1, Len(s)) = p

\* needle in hay
Contains(hay, needle) ==
    \E k \in 0..(Len(hay) - Len(needle)) : SubSeq(hay, k + 1, k + Len(needle)) = needle

\* s.replace(pat, ''): the non-overlapping occurrences, left to right
RECURSIVE RemoveAllFrom(_, _, _)
RemoveAllFrom(s, pat, i) ==
    IF i > Len(s) THEN <<>>
    ELSE IF i + Len(pat) - 1 <= Len(s) /\ SubSeq(s, i, i + Len(pat) - 1) = pat
         THEN RemoveAllFrom(s, pat, i + Len(pat))
         ELSE <<s[i]>> \o RemoveAllFrom(s, pat, i + 1)

RemoveAll(s, pat) == RemoveAllFrom(s, pat, 1)

\* c.lower() for the letters the model uses
LowerChar(c) ==
    CASE c = "A" -> "a" [] c = "B" -> "b" [] c = "C" -> "c" [] c = "D" -> "d"
      [] OTHER -> c

\* s.lower()
Lower(s) == [i \in 1..Len(s) |-> LowerChar(s[i])]

\* list.remove(x): drop the first element equal to x
RemoveFirst(list, x) ==
    LET at == MinOf({j \in 1..Len(list) : list[j] = x})
    IN  SubSeq(list, 1, at - 1) \o SubSeq(list, at + 1, Len(list))

\* Two characters that a TLA+ string literal cannot hold are named
Backtick == "U+0060"
Bullet == "U+2022"

FenceJson == <<Backtick, Backtick, Backtick, "j", "s", "o", "n">>
Fence == <<Backtick, Backtick, Backtick>>
BulletChars == {"-", "*", Bullet}

----------------------------------------------------------------------------
(* json.loads, for texts whose values are strings without escapes and     *)
(* arrays.  A value is [isStr, s, items]: a string s, or an array.        *)

Quote == "\""
ControlChars == {"\t", "\n", "\r"}
JsonFail == [ok |-> FALSE, val |-> [isStr |-> FALSE, s |-> <<>>, items |-> <<>>], next |-> 0]
JsonStr(s, next) == [ok |-> TRUE, val |-> [isStr |-> TRUE, s |-> s, items |-> <<>>], next |-> next]
JsonArr(items, next) == [ok |-> TRUE, val |-> [isStr |-> FALSE, s |-> <<>>, items |-> items], next |-> next]

\* the first position from i on that holds no JSON whitespace
SkipWs(s, i) ==
    LET rest == {j \in i..Len(s) : s[j] \notin Whitespace}
    IN  IF rest = {} THEN Len(s) + 1 ELSE MinOf(rest)

\* a string literal opening at s[i]; a raw control character in it is an error
ParseString(s, i) ==
    LET close == {j \in (i + 1)..Len(s) : s[j] = Quote}
    IN  IF close = {} THEN JsonFail
        ELSE LET j == MinOf(close)
             IN  IF \E k \in (i + 1)..(j - 1) : s[k] \in ControlChars
                 THEN JsonFail
                 ELSE JsonStr(SubSeq(s, i + 1, j - 1), j + 1)

RECURSIVE ParseValue(_, _), ParseElements(_, _, _)
\* the value starting at s[i] (whitespace already skipped)
ParseValue(s, i) ==
    IF i > Len(s) THEN JsonFail
    ELSE IF s[i] = Quote THEN ParseString(s, i)
    ELSE IF s[i] = "["
         THEN LET j == SkipWs(s, i + 1)
              IN  IF j <= Len(s) /\ s[j] = "]" THEN JsonArr(<<>>, j + 1)
                  ELSE ParseElements(s, j, <<>>)
    ELSE JsonFail

\* the elements of an array from s[i] on, up to its closing bracket
ParseElements(s, i, acc) ==
    LET v == ParseValue(s, i)
    IN  IF ~v.ok THEN JsonFail
        ELSE LET j == SkipWs(s, v.next)
             IN  IF j > Len(s) THEN JsonFail
                 ELSE IF s[j] = "," THEN ParseElements(s, SkipWs(s, j + 1), Append(acc, v.val))
                 ELSE IF s[j] = "]" THEN JsonArr(Append(acc, v.val), j + 1)
                 ELSE JsonFail

\* json.loads(s): one value, then nothing but whitespace
JsonLoads(s) ==
    LET v == ParseValue(s, SkipWs(s, 1))
    IN  IF v.ok /\ SkipWs(s, v.next) > Len(s) THEN v ELSE JsonFail

----------------------------------------------------------------------------
(* identify_technical_terms, after the service call *)

\* term.replace(FenceJson, '').replace(Fence, '').strip()
CleanTerm(s) == Strip(RemoveAll(RemoveAll(s, FenceJson), Fence))

\* term.lower() in existing_term.lower() or existing_term.lower() in term.lower()
Related(term, existing_term) ==
    Contains(Lower(existing_term), Lower(term)) \/ Contains(Lower(term), Lower(existing_term))

\* the body of 'for term in cleaned_terms': the scan of deduplicated_terms from j on
RECURSIVE DedupScan(_, _, _)
DedupScan(ded, term, j) ==
    IF j > Len(ded) THEN Append(ded, term)
    ELSE IF Related(term, ded[j])
         THEN IF Len(term) > Len(ded[j])
              THEN Append(RemoveFirst(ded, ded[j]), term)
              ELSE ded
         ELSE DedupScan(ded, term, j + 1)

\* DedupAdd putting a longer term where the shorter entry was
DedupAddInPlace(ded, term) ==
    LET rel == {j \in 1..Len(ded) : Related(term, ded[j])}
    IN  IF rel = {} THEN Append(ded, term)
        ELSE IF Len(term) > Len(ded[MinOf(rel)])
             THEN [ded EXCEPT ![MinOf(rel)] = term]
             ELSE ded

DedupAdd(ded, term) == DedupScan(ded, term, 1)

\* the whole deduplication loop over a list of cleaned terms
RECURSIVE DedupFrom(_, _, _)
DedupFrom(cleaned, i, ded) ==
    IF i > Len(cleaned) THEN ded
    ELSE DedupFrom(cleaned, i + 1, DedupAdd(ded, cleaned[i]))

Dedup(cleaned) == DedupFrom(cleaned, 1, <<>>)

\* the fallback's list comprehension over response.split('\n')
KeepLine(line) == Strip(line) # <<>> /\ Len(Strip(line)) > MinLineLen
TrimLine(line) == Strip(StripChars(Strip(line), BulletChars))
\* FallbackTerms measuring a line after its markers are trimmed
FallbackTermsTrimFirst(resp) ==
    LET Long(line) == Len(TrimLine(line)) > MinLineLen
        kept == SelectSeq(SplitOn(resp, "\n"), Long)
    IN  [i \in 1..Len(kept) |-> TrimLine(kept[i])]

FallbackTerms(resp) ==
    LET kept == SelectSeq(SplitOn(resp, "\n"), KeepLine)
    IN  [i \in 1..Len(kept) |-> TrimLine(kept[i])]

\* response_str = response.strip(); the bracket test; json.loads
ParseResponse ==
    /\ pc = "parse"
    /\ LET response_str == Strip(response)
           parsed == JsonLoads(response_str)
       IN  IF StartsWith(response_str, <<"[">>) /\ EndsWith(response_str, <<"]">>)
              /\ parsed.ok /\ ~parsed.val.isStr
           THEN /\ terms' = parsed.val.items
                /\ pc' = "clean_loop"
           ELSE /\ terms' = <<>>
                /\ pc' = "fallback"
    /\ ti' = 1
    /\ cleaned_terms' = <<>>
    /\ UNCHANGED <<error, chunkVars, response, di, deduplicated_terms,
                   technical_terms, path, runVars>>

\* CleanEntry with the length test off by one
CleanEntryOffByOne ==
    /\ pc = "clean_loop"
    /\ ti <= Len(terms)
    /\ LET term == terms[ti]
           clean_term == CleanTerm(term.s)
       IN  cleaned_terms' =
               IF term.isStr /\ Len(clean_term) > MinTermLen + 1
               THEN Append(cleaned_terms, clean_term)
               ELSE cleaned_terms
    /\ ti' = ti + 1
    /\ UNCHANGED <<pc, error, chunkVars, response, terms, di, deduplicated_terms,
                   technical_terms, path, runVars>>

\* one iteration of 'for term in terms'
CleanEntry ==
    /\ pc = "clean_loop"
    /\ ti <= Len(terms)
    /\ LET term == terms[ti]
           clean_term == CleanTerm(term.s)
       IN  cleaned_terms' =
               IF term.isStr /\ term.s # <<>>
                  /\ clean_term # <<>> /\ Len(clean_term) > MinTermLen
                  /\ ~StartsWith(clean_term, Fence)
               THEN Append(cleaned_terms, clean_term)
               ELSE cleaned_terms
    /\ ti' = ti + 1
    /\ UNCHANGED <<pc, error, chunkVars, response, terms, di, deduplicated_terms,
                   technical_terms, path, runVars>>

\* deduplicated_terms = []
CleanDone ==
    /\ pc = "clean_loop"
    /\ ti > Len(terms)
    /\ deduplicated_terms' = <<>>
    /\ di' = 1
    /\ pc' = "dedup_loop"
    /\ UNCHANGED <<error, chunkVars, response, terms, ti, cleaned_terms,
                   technical_terms, path, runVars>>

\* one iteration of 'for term in cleaned_terms'
DedupStep ==
    /\ pc = "dedup_loop"
    /\ di <= Len(cleaned_terms)
    /\ deduplicated_terms' = DedupAdd(deduplicated_terms, cleaned_terms[di])
    /\ di' = di + 1
    /\ UNCHANGED <<pc, error, chunkVars, response, terms, ti, cleaned_terms,
                   technical_terms, path, runVars>>

\* return deduplicated_terms[:8]
ReturnStructured ==
    /\ pc = "dedup_loop"
    /\ di > Len(cleaned_terms)
    /\ technical_terms' = Take(deduplicated_terms, MaxTerms)
    /\ path' = "structured"
    /\ pc' = "identified"
    /\ UNCHANGED <<error, chunkVars, response, terms, ti, cleaned_terms, di,
                   deduplicated_terms, runVars>>

\* the line fallback: return terms[:8]
Fallback ==
    /\ pc = "fallback"
    /\ technical_terms' = Take(FallbackTerms(response), MaxFallbackTerms)
    /\ path' = "fallback"
    /\ pc' = "identified"
    /\ UNCHANGED <<error, chunkVars, response, terms, ti, cleaned_terms, di,
                   deduplicated_terms, runVars>>

----------------------------------------------------------------------------
(* call_openai_with_tools *)

NoOutputText == <<"[", "N", "o", " ", "o", "u", "t", "p", "u", "t", " ", "f", "r", "o", "m", " ", "m", "o", "d", "e", "l", "]">>
ResponseErrorPrefix == <<"R", "e", "s", "p", "o", "n", "s", "e", " ", "e", "r", "r", "o", "r", ":", " ">>

\* What the service does with one request:
\*   text          the response holds a non-empty text item
\*   no_output     the response holds no text item
\*   bad_response  reading the response raises (inside the try block)
\*   request_error client.responses.create raises (before the try block)
TextOutcome(t) == [kind |-> "text", text |-> t]
NoOutput == [kind |-> "no_output", text |-> <<>>]
BadResponse == [kind |-> "bad_response", text |-> <<"x">>]
RequestError == [kind |-> "request_error", text |-> <<"x">>]

\* the value call_openai_with_tools returns, or the exception it lets through
CallOpenAI(o) ==
    [failed |-> o.kind \in {"bad_response", "request_error"},
     raised |-> o.kind = "request_error",
     value  |-> CASE o.kind = "text" -> o.text
                  [] o.kind = "no_output" -> NoOutputText
                  [] o.kind = "bad_response" -> ResponseErrorPrefix \o o.text
                  [] OTHER -> <<>>]

NoCall == [failed |-> FALSE, raised |-> FALSE, value |-> <<>>]
Request(stage, arg) == [stage |-> stage, arg |-> arg]

----------------------------------------------------------------------------
(* Inputs *)

ListsUpTo(S, n) == UNION {[1..k -> S] : k \in 0..n}

\* texts given to chunk_text on its own
TextChars == {"a", "b", " ", "\n"}
Texts == ListsUpTo(TextChars, MaxTextLen)

\* cleaned terms given to the deduplication loop on its own
TermPool == {<<"a", "b", "c">>, <<"b", "c", "d">>, <<"a", "b", "c", "d">>,
             <<"A", "B", "C", "D">>, <<"c", "d", "e">>, <<"x", "y", "z">>}
ManyTerms == <<<<"m", "1", "x">>, <<"m", "2", "x">>, <<"m", "3", "x">>,
               <<"m", "4", "x">>, <<"m", "5", "x">>, <<"m", "6", "x">>,
               <<"m", "7", "x">>, <<"m", "8", "x">>, <<"m", "9", "x">>>>
LongLists == {SubSeq(ManyTerms, 1, n) \o l : n \in 7..9, l \in ListsUpTo(TermPool, 1)}
CleanedLists == ListsUpTo(TermPool, MaxListLen + 1) \cup LongLists

\* service responses given to identify_technical_terms on its own
Quoted(s) == <<Quote>> \o s \o <<Quote>>
RenderArray(elements) == <<"[">> \o Join(elements, <<",", " ">>) \o <<"]">>
ElementPool == {Quoted(<<"a", "b", "c">>), Quoted(<<"b", "c", "d">>),
                Quoted(<<"a", "b", "c", "d">>), Quoted(<<"a", "b">>), Quoted(<<>>),
                Quoted(FenceJson), Quoted(FenceJson \o <<" ", "x", "y", "z">> \o Fence),
                <<"[", "]">>}
JsonResponses == {RenderArray(l) : l \in ListsUpTo(ElementPool, MaxListLen)}
LongJson == RenderArray([i \in 1..Len(ManyTerms) |-> Quoted(ManyTerms[i])])
Padded == {<<"\n">> \o RenderArray(l) \o <<" ">> : l \in ListsUpTo(ElementPool, 1)}
Fenced == {FenceJson \o <<"\n">> \o RenderArray(l) \o <<"\n">> \o Fence :
               l \in ListsUpTo(ElementPool, 1)}
Broken == {<<"[">>, <<"[", "a", "b", "c", "]">>,
           <<"[", Quote, "a", "b", "c", Quote, ",", "]">>,
           <<"[", Quote, "a", "b", "c", Quote, "]", " ", "]">>,
           <<"[", Quote, "a", "\n", "b", "c", Quote, "]">>,
           <<"[", Quote, "a", "b", "c", Quote, " ", Quote, "b", "c", "d", Quote, "]">>,
           Quoted(<<"a", "b", "c">>)}
ExampleResponse == <<"-", " ", "t", "e", "r", "m", " ", "o", "n", "e", "\n", "-", " ", "t", "e", "r", "m", " ", "t", "w", "o", "\n">>
TermOne == <<"t", "e", "r", "m", " ", "o", "n", "e">>
TermTwo == <<"t", "e", "r", "m", " ", "t", "w", "o">>
LinePool == {<<"-", " ", "a", "b", "c">>, <<>>, <<"a", "b">>, <<" ", "a", " ">>,
             <<" ", "*", " ", "x", " ">>, <<"-", "-", "-">>,
             <<Bullet, " ", "x", "y", "z">>, <<"x", "y", "z", "-">>}
LineResponses == {Join(l, <<"\n">>) : l \in ListsUpTo(LinePool, MaxListLen)}
LongLines == Join(ManyTerms, <<"\n">>)
Responses == JsonResponses \cup Padded \cup Fenced \cup Broken \cup LineResponses
             \cup {LongJson, LongLines, ExampleResponse, NoOutputText,
                   ResponseErrorPrefix \o <<"x">>}

\* what the service may do with each request of a run
DupJson == RenderArray(<<Quoted(<<"a", "b", "c">>), Quoted(<<"b", "c", "d">>),
                         Quoted(<<"a", "b", "c", "d">>), Quoted(<<"a", "b", "c", "d">>)>>)
IdentifyOutcomes == {TextOutcome(r) : r \in {LongJson, DupJson, ExampleResponse}}
                    \cup {NoOutput, BadResponse, RequestError}
OtherOutcomes == {TextOutcome(<<"o", "k">>), NoOutput, BadResponse, RequestError}

\* pages of the document: page.extract_text() gives a text, or None
None == "None"
PagePool == {None, <<>>, <<"a", " ", "b">>}
Documents == ListsUpTo(PagePool, MaxPages)

----------------------------------------------------------------------------
(* extract_text_from_pdf and process_paper_enhanced *)

\* text += page.extract_text() + "\n", over the pages
RECURSIVE PagesText(_)
PagesText(pages) ==
    IF pages = <<>> THEN <<>>
    ELSE pages[1] \o <<"\n">> \o PagesText(Tail(pages))

\* full_text = extract_text_from_pdf(file_path); chunks = chunk_text(full_text)
ExtractText ==
    /\ pc = "extract"
    /\ \E readable \in BOOLEAN, pages \in Documents :
         IF readable /\ \A i \in 1..Len(pages) : pages[i] # None
         THEN /\ text' = PagesText(pages)
              /\ pc' = "chunk_split"
              /\ error' = error
         ELSE /\ text' = text
              /\ pc' = "aborted"
              /\ error' = "extraction"
    /\ max_length' = DefaultMaxLength
    /\ UNCHANGED <<words, wi, chunk, chunks, termVars, runVars>>

\* chunk = chunks[0]
SelectChunk ==
    /\ pc = "chunk_done"
    /\ IF chunks = <<>>
       THEN /\ pc' = "aborted"
            /\ error' = "IndexError"
            /\ first_chunk' = first_chunk
       ELSE /\ pc' = "identify_call"
            /\ error' = error
            /\ first_chunk' = chunks[1]
    /\ UNCHANGED <<chunkVars, termVars, log, last_call, explanations, ei,
                   repositories, comprehensive_explanation, report>>

\* identify_technical_terms: response = call_openai_with_tools(prompt, ...)
IdentifyRequest ==
    /\ pc = "identify_call"
    /\ \E o \in IdentifyOutcomes :
         /\ last_call' = CallOpenAI(o)
         /\ IF CallOpenAI(o).raised
            THEN /\ pc' = "aborted"
                 /\ error' = "remote"
                 /\ response' = response
            ELSE /\ pc' = "parse"
                 /\ error' = error
                 /\ response' = CallOpenAI(o).value
    /\ log' = Append(log, Request("identify", first_chunk))
    /\ UNCHANGED <<chunkVars, terms, ti, cleaned_terms, di, deduplicated_terms,
                   technical_terms, path, first_chunk, explanations, ei,
                   repositories, comprehensive_explanation, report>>

\* ExplainedTerms without the slice
AllTerms == technical_terms

\* technical_terms[:5]
ExplainedTerms == Take(technical_terms, MaxExplained)

\* one iteration of 'for term in technical_terms[:5]'
ExplainTerm ==
    /\ pc = "identified"
    /\ ei <= Len(ExplainedTerms)
    /\ \E o \in OtherOutcomes :
         /\ last_call' = CallOpenAI(o)
         /\ IF CallOpenAI(o).raised
            THEN /\ pc' = "aborted"
                 /\ error' = "remote"
                 /\ explanations' = explanations
            ELSE /\ pc' = pc
                 /\ error' = error
                 /\ explanations' =
                        (technical_terms[ei] :> CallOpenAI(o).value) @@ explanations
    /\ log' = Append(log, Request("explain", technical_terms[ei]))
    /\ ei' = ei + 1
    /\ UNCHANGED <<chunkVars, termVars, first_chunk, repositories,
                   comprehensive_explanation, report>>

\* repositories = find_relevant_repositories(chunk)
FindRepositories ==
    /\ pc = "identified"
    /\ ei > Len(ExplainedTerms)
    /\ \E o \in OtherOutcomes :
         /\ last_call' = CallOpenAI(o)
         /\ IF CallOpenAI(o).raised
            THEN /\ pc' = "aborted"
                 /\ error' = "remote"
                 /\ repositories' = repositories
            ELSE /\ pc' = "summarise"
                 /\ error' = error
                 /\ repositories' = CallOpenAI(o).value
    /\ log' = Append(log, Request("repositories", Take(first_chunk, RepoPromptLen)))
    /\ UNCHANGED <<chunkVars, termVars, first_chunk, explanations, ei,
                   comprehensive_explanation, report>>

\* chunk[:200] + "..." if len(chunk) > 200 else chunk
Preview(c) == IF Len(c) > PreviewLen THEN Take(c, PreviewLen) \o <<".", ".", ".">> ELSE c

\* comprehensive_explanation = explain_paper_with_enhanced_tools(chunk); return {...}
ExplainPaper ==
    /\ pc = "summarise"
    /\ \E o \in OtherOutcomes :
         /\ last_call' = CallOpenAI(o)
         /\ IF CallOpenAI(o).raised
            THEN /\ pc' = "aborted"
                 /\ error' = "remote"
                 /\ comprehensive_explanation' = comprehensive_explanation
                 /\ report' = report
            ELSE /\ pc' = "returned"
                 /\ error' = error
                 /\ comprehensive_explanation' = CallOpenAI(o).value
                 /\ report' = [technical_terms |-> technical_terms,
                               explanations |-> explanations,
                               repositories |-> repositories,
                               comprehensive_explanation |-> CallOpenAI(o).value,
                               chunk_processed |-> Preview(first_chunk)]
    /\ log' = Append(log, Request("comprehensive", first_chunk))
    /\ UNCHANGED <<chunkVars, termVars, first_chunk, explanations, ei, repositories>>

----------------------------------------------------------------------------
(* Specifications *)

IdleChunk ==
    /\ text = <<>> /\ max_length = DefaultMaxLength
    /\ words = <<>> /\ wi = 1 /\ chunk = <<>> /\ chunks = <<>>
IdleTerms ==
    /\ response = <<>> /\ terms = <<>> /\ ti = 1 /\ cleaned_terms = <<>> /\ di = 1
    /\ deduplicated_terms = <<>> /\ technical_terms = <<>> /\ path = "none"
IdleRun ==
    /\ first_chunk = <<>> /\ log = <<>> /\ last_call = NoCall
    /\ explanations = <<>> /\ ei = 1 /\ repositories = <<>>
    /\ comprehensive_explanation = <<>> /\ report = <<>>

\* a run of process_paper_enhanced
Init ==
    /\ pc = "extract" /\ error = "none"
    /\ IdleChunk /\ IdleTerms /\ IdleRun

Next ==
    \/ ExtractText \/ ChunkSplit \/ ChunkWord \/ ChunkFlush \/ SelectChunk
    \/ IdentifyRequest \/ ParseResponse \/ CleanEntry \/ CleanDone \/ DedupStep
    \/ ReturnStructured \/ Fallback \/ ExplainTerm \/ FindRepositories \/ ExplainPaper

Spec == Init /\ [][Next]_vars

\* chunk_text on every small text and maximum length
InitChunk ==
    /\ pc = "chunk_split" /\ error = "none"
    /\ text \in Texts /\ max_length \in 0..MaxMaxLength
    /\ words = <<>> /\ wi = 1 /\ chunk = <<>> /\ chunks = <<>>
    /\ IdleTerms /\ IdleRun

NextChunk == ChunkSplit \/ ChunkWord \/ ChunkFlush

SpecChunk == InitChunk /\ [][NextChunk]_vars

\* identify_technical_terms on every response of the pool
InitTerms ==
    /\ pc = "parse" /\ error = "none"
    /\ response \in Responses
    /\ terms = <<>> /\ ti = 1 /\ cleaned_terms = <<>> /\ di = 1
    /\ deduplicated_terms = <<>> /\ technical_terms = <<>> /\ path = "none"
    /\ IdleChunk /\ IdleRun

NextTerms ==
    \/ ParseResponse \/ CleanEntry \/ CleanDone \/ DedupStep \/ ReturnStructured
    \/ Fallback

SpecTerms == InitTerms /\ [][NextTerms]_vars

\* the deduplication loop on every small list of cleaned terms
InitDedup ==
    /\ pc = "dedup_loop" /\ error = "none"
    /\ cleaned_terms \in CleanedLists
    /\ response = <<>> /\ terms = <<>> /\ ti = 1 /\ di = 1
    /\ deduplicated_terms = <<>> /\ technical_terms = <<>> /\ path = "none"
    /\ IdleChunk /\ IdleRun

NextDedup == DedupStep \/ ReturnStructured

SpecDedup == InitDedup /\ [][NextDedup]_vars

----------------------------------------------------------------------------
(* Properties *)

RECURSIVE Flatten(_)
Flatten(lists) == IF lists = <<>> THEN <<>> ELSE lists[1] \o Flatten(Tail(lists))

IsPrefix(p, q) == Len(p) <= Len(q) /\ SubSeq(q, 1, Len(p)) = p

Smaller(a, b) == IF a < b THEN a ELSE b

\* a is a case-insensitive substring of b
SubstringOf(a, b) == Contains(Lower(b), Lower(a))

\* C1: every segment chunk_text returns that holds more than one word has
\* rendered length at most max_length; only a single-word segment may exceed it.
C1_SegmentBound ==
    pc = "chunk_done" =>
        \A i \in 1..Len(chunks) :
            Len(Split(chunks[i])) > 1 => Len(chunks[i]) <= max_length

\* C4: the words of the segments, concatenated in segment order, are exactly
\* the whitespace-delimited words of the text, and no segment is empty.
C4_RoundTrip ==
    pc = "chunk_done" =>
        /\ Flatten([i \in 1..Len(chunks) |-> Split(chunks[i])]) = Split(text)
        /\ \A i \in 1..Len(chunks) : chunks[i] # <<>>

C4_Witness ==
    /\ pc = "chunk_done"
    /\ Len(chunks) >= 2
    /\ \E i \in 1..Len(chunks) : Len(Split(chunks[i])) >= 2
    /\ Len(Split(chunks[Len(chunks)])) = 1 /\ Len(chunks[Len(chunks)]) <= max_length

\* C2: the list the deduplication returns holds no two distinct entries such
\* that one is a case-insensitive substring of the other.
C2_NoContainment ==
    (pc = "identified" /\ path = "structured") =>
        \A i, j \in 1..Len(technical_terms) :
            i # j => ~SubstringOf(technical_terms[i], technical_terms[j])

\* C5: feeding the list the deduplication returns back into the deduplication
\* returns that list unchanged.
C5_Idempotent ==
    (pc = "identified" /\ path = "structured") =>
        Take(Dedup(technical_terms), MaxTerms) = technical_terms

\* the step of the deduplication loop is about to handle cleaned_terms[di]
AtDedupStep == pc = "dedup_loop" /\ di <= Len(cleaned_terms)
RelatedAt(ded, term) == {j \in 1..Len(ded) : SubstringOf(term, ded[j]) \/ SubstringOf(ded[j], term)}
RemoveAt(list, j) == SubSeq(list, 1, j - 1) \o SubSeq(list, j + 1, Len(list))

\* C6 as stated: a new term longer than a retained term it is related to takes
\* the position that entry held, the other entries keep their order, and an
\* unrelated new term is appended at the end.
C6_ReplaceInPlace ==
    [][AtDedupStep =>
        LET term == cleaned_terms[di]
            rel == RelatedAt(deduplicated_terms, term)
        IN  /\ rel = {} => deduplicated_terms' = Append(deduplicated_terms, term)
            /\ (\E j \in rel : Len(term) > Len(deduplicated_terms[j])) =>
                   \E j \in rel :
                       /\ Len(term) > Len(deduplicated_terms[j])
                       /\ deduplicated_terms' = [deduplicated_terms EXCEPT ![j] = term]
    ]_vars

\* C6 as amended: a new term longer than the first retained term it is related
\* to makes that entry leave the list and is itself appended at the end; a new
\* term related to a retained term and not longer than the first such changes
\* nothing; an unrelated new term is appended at the end; in every case the
\* other retained terms keep their relative order.
C6_ReplaceAtEnd ==
    [][AtDedupStep =>
        LET term == cleaned_terms[di]
            rel == RelatedAt(deduplicated_terms, term)
        IN  IF rel = {}
            THEN deduplicated_terms' = Append(deduplicated_terms, term)
            ELSE IF Len(term) > Len(deduplicated_terms[MinOf(rel)])
                 THEN deduplicated_terms' =
                          Append(RemoveAt(deduplicated_terms, MinOf(rel)), term)
                 ELSE deduplicated_terms' = deduplicated_terms
    ]_vars

\* a longer term has just replaced an entry that was not the last one
C6_Witness ==
    /\ pc = "dedup_loop"
    /\ di = 4
    /\ Len(cleaned_terms) >= 3
    /\ ~SubstringOf(cleaned_terms[1], cleaned_terms[2])
    /\ ~SubstringOf(cleaned_terms[2], cleaned_terms[1])
    /\ ~SubstringOf(cleaned_terms[2], cleaned_terms[3])
    /\ ~SubstringOf(cleaned_terms[3], cleaned_terms[2])
    /\ SubstringOf(cleaned_terms[1], cleaned_terms[3])
    /\ Len(cleaned_terms[3]) > Len(cleaned_terms[1])
    /\ deduplicated_terms = <<cleaned_terms[2], cleaned_terms[3]>>

\* the response takes the fallback: it is not bracket-delimited, or json.loads fails
Bracketed(resp) == StartsWith(Strip(resp), <<"[">>) /\ EndsWith(Strip(resp), <<"]">>)
TakesFallback(resp) == ~Bracketed(resp) \/ ~JsonLoads(Strip(resp)).ok

\* C7: for a response that is not bracket-delimited or does not parse,
\* identify_technical_terms does not raise and returns at most 8 terms: the
\* lines of the response that have at least 3 characters once whitespace is
\* trimmed, in line order, each trimmed of whitespace and bullet markers; the
\* response "- term one\n- term two\n" gives ["term one", "term two"].
C7_Fallback ==
    /\ TakesFallback(response) => pc # "aborted"
    /\ (pc = "identified" /\ TakesFallback(response)) =>
        LET lines == SplitOn(response, "\n")
            kept == {i \in 1..Len(lines) : Len(Strip(lines[i])) >= 3}
            nth(k) == CHOOSE i \in kept : Cardinality({j \in kept : j <= i}) = k
        IN  /\ Len(technical_terms) = Smaller(8, Cardinality(kept))
            /\ \A k \in 1..Len(technical_terms) :
                   technical_terms[k] =
                       Strip(StripChars(Strip(lines[nth(k)]), {"-", "*", Bullet}))
    /\ (pc = "identified" /\ response = ExampleResponse) =>
           technical_terms = <<TermOne, TermTwo>>

C7_Witness ==
    /\ pc = "identified"
    /\ response = ExampleResponse
    /\ path = "fallback"
    /\ technical_terms = <<TermOne, TermTwo>>

\* the response parsed to a list whose entries are all strings, and the
\* cleaning loop has handled every entry
CleanedListOfStrings ==
    /\ pc \in {"dedup_loop", "identified"}
    /\ path # "fallback"
    /\ Bracketed(response) /\ JsonLoads(Strip(response)).ok
    /\ \A i \in 1..Len(terms) : terms[i].isStr

CleanedEntries == [i \in 1..Len(terms) |-> CleanTerm(terms[i].s)]

\* C8 as stated: every entry that is non-empty after cleaning is passed on, in
\* input order, to the deduplication, and the final list holds at most 8 terms.
C8_KeepsNonEmpty ==
    CleanedListOfStrings =>
        LET NonEmpty(c) == c # <<>>
        IN  /\ cleaned_terms = SelectSeq(CleanedEntries, NonEmpty)
            /\ Len(technical_terms) <= 8

\* C8 as amended: the entries passed on to the deduplication are those with
\* more than 2 characters after cleaning, in input order; entries that are
\* empty, artifact-only or 1 to 2 characters long after cleaning are dropped;
\* the final list holds at most 8 terms.
C8_KeepsLongerThanTwo ==
    CleanedListOfStrings =>
        LET Long(c) == Len(c) > 2
        IN  /\ cleaned_terms = SelectSeq(CleanedEntries, Long)
            /\ \A i \in 1..Len(cleaned_terms) :
                   ~Contains(cleaned_terms[i], Fence) /\ Strip(cleaned_terms[i]) = cleaned_terms[i]
            /\ Len(technical_terms) <= 8
            /\ pc = "identified" => technical_terms = Take(deduplicated_terms, 8)

\* a list with a short entry, an artifact-only entry and a fenced entry
C8_Witness ==
    /\ CleanedListOfStrings
    /\ pc = "identified"
    /\ \E i \in 1..Len(terms) : Len(CleanTerm(terms[i].s)) \in 1..2
    /\ \E i \in 1..Len(terms) : terms[i].s # <<>> /\ CleanTerm(terms[i].s) = <<>>
    /\ \E i \in 1..Len(terms) :
           Contains(terms[i].s, Fence) /\ Len(CleanTerm(terms[i].s)) > 2
    /\ cleaned_terms # <<>>

\* the requests of a complete run, in order
ExpectedLog ==
    <<Request("identify", first_chunk)>>
    \o [i \in 1..Smaller(5, Len(technical_terms)) |-> Request("explain", technical_terms[i])]
    \o <<Request("repositories", Take(first_chunk, 1000)),
         Request("comprehensive", first_chunk)>>

\* C9: the requests of a run are issued in one fixed order, each once: the
\* term extraction for segment 0, one explanation for each of the first
\* min(5, n) positions of the term list (n <= 8), the resources, the
\* comprehensive explanation; a run that returns has issued all of them, and
\* the keys of its explanations are the terms at those positions.
C9_RequestOrder ==
    /\ Len(technical_terms) <= 8
    /\ IsPrefix(log, ExpectedLog)
    /\ pc = "returned" =>
        /\ log = ExpectedLog
        /\ report.technical_terms = technical_terms
        /\ DOMAIN report.explanations =
               {technical_terms[i] : i \in 1..Smaller(5, Len(technical_terms))}

C9_Witness ==
    /\ pc = "returned"
    /\ Len(technical_terms) = 8
    /\ Len(log) = 8
    /\ Cardinality(DOMAIN report.explanations) = 5

\* C3: a service request that fails does not make call_openai_with_tools
\* raise: the call returns a text beginning with "Response error:" and the
\* run goes on to return its Report.
C3_ErrorAbsorbed ==
    last_call.failed =>
        /\ ~last_call.raised
        /\ StartsWith(last_call.value, SubSeq(ResponseErrorPrefix, 1, 15))
        /\ pc # "aborted"

\* C10: a run whose text extraction succeeds and whose service requests all
\* return a response does not abort (an empty or whitespace-only text included).
C10_OnlyExtractionAborts ==
    pc = "aborted" => (error = "extraction" \/ last_call.raised)

====
